---- MODULE Spec2Model ----
(***************************************************************************)
(* One call of processStyleTransfer, the asynchronous prediction           *)
(* orchestration client of picoart, in its three variants:                 *)
(*   "api"  : src/src/utils/styleTransferAPI.js (direct Replicate call)    *)
(*   "sdxl" : src/unnamed/part_000 (SDXL img2img through /api/replicate)   *)
(*   "flux" : src/unnamed/part_001 (FLUX ControlNet through /api/replicate)*)
(* Every await of the code is a position (pc); every action is the code    *)
(* that runs when the awaited event (image load, reader load, HTTP         *)
(* response, timer) is delivered, up to the next await.                    *)
(* After the single call come resizeImage and the prompt builders on their *)
(* own (ResizeSpec, PromptSpec), two calls in flight (TwoCallSpec), and    *)
(* the proxy handler of src/api/replicate.js (ProxySpec).                  *)
(***************************************************************************)
EXTENDS Integers, Sequences, FiniteSets, TLC

VARIABLES
    variant,       \* which of the three source files runs
    apiKey,        \* the caller's apiKey argument
    hasCb,         \* whether the caller passed an onProgress callback
    decodable,     \* whether the browser can decode the input photo
    pc,            \* the call's position (the await it is suspended at)
    imgErrorFired, \* the image's error event was dispatched (no handler listens)
    urlsGet,       \* prediction.urls is present in the submission response
    result,        \* the tracked job snapshot (let result = prediction; result = json)
    attempts,      \* the poll loop's counter
    queries,       \* status queries issued (fetch of the status endpoint)
    outstanding,   \* status queries issued and not yet answered
    fetches,       \* final-image fetches issued
    fetchUrl,      \* the locator the final-image fetch was issued for
    emitted,       \* percentages handed to onProgress, in order
    faults,        \* failures the environment has injected so far
    kNonTerminal,  \* successful poll responses that reported a non-terminal status
    realOutcome,   \* applyStyleTransfer: "notrun", "running", "ok", "failed"
    realError,     \* error.message caught by applyStyleTransfer ("" if none)
    mockStarted,   \* mockStyleTransfer was called
    mockTicks,     \* setInterval callbacks run by mockStyleTransfer
    ret,           \* the value processStyleTransfer resolved with
    requests,      \* the requests the call has issued: their kind, and whether
                   \* they carried an Authorization header
    img,           \* resizeImage on its own: the image and the canvas it draws
    desc,          \* the prompt builders on their own: the artwork and the prompt
    calls,         \* two interleaved calls (see the section on two calls)
    proxy          \* one request in the proxy handler of api/replicate.js

\* The state of the single call.
callVars == <<variant, apiKey, hasCb, decodable, pc, imgErrorFired, urlsGet, result,
              attempts, queries, outstanding, fetches, fetchUrl, emitted, faults,
              kNonTerminal, realOutcome, realError, mockStarted, mockTicks, ret,
              requests>>

\* The state of the functions, of the two calls and of the proxy handler
\* that are studied apart.
auxVars == <<img, desc, calls, proxy>>

vars == <<callVars, auxVars>>

(***************************************************************************)
(* Bounds of the model (not program constants).                            *)
(***************************************************************************)
\* setInterval ticks of the simulator that are explored (it needs 10 to
\* resolve; a throwing callback makes it run on).
MaxMockTicks == 12

(***************************************************************************)
(* Program constants.                                                      *)
(***************************************************************************)
MaxAttemptsApi == 60
MaxAttemptsSdxl == 60
MaxAttemptsFlux == 90
ProgressCap == 95
MockStep == 10
MockDone == 100
MaxWidthApi == 768
MaxWidthSdxl == 768
MaxWidthFlux == 1024

Variants == {"api", "sdxl", "flux"}
PlaceholderKey == "YOUR_REPLICATE_API_KEY_HERE"
ApiKeys == {"", PlaceholderKey, "r8_key"}

Min(a, b) == IF a <= b THEN a ELSE b

(***************************************************************************)
(* JavaScript values of a prediction's output field.                       *)
(***************************************************************************)
Undefined == [kind |-> "undefined", val |-> "", items |-> <<>>]
Null == [kind |-> "null", val |-> "", items |-> <<>>]
Str(s) == [kind |-> "string", val |-> s, items |-> <<>>]
Arr(xs) == [kind |-> "array", val |-> "", items |-> xs]

Url1 == "https://x/result.jpg"
Url2 == "https://x/second.jpg"

\* Outputs with no usable locator, and outputs with one.
EmptyOutputs == {Undefined, Null, Str(""), Arr(<<>>), Arr(<<"">>)}
UsableOutputs == {Str(Url1), Arr(<<Url1>>), Arr(<<Url2, Url1>>)}
Outputs == EmptyOutputs \cup UsableOutputs

NonTerminalStatuses == {"starting", "processing", "canceled", "missing"}
TerminalStatuses == {"succeeded", "failed"}
Statuses == NonTerminalStatuses \cup TerminalStatuses

\* JSON bodies the status endpoint (and the submission) can answer with: a job
\* that has not ended has no output yet.
Bodies ==
    {[status |-> s, output |-> Undefined] : s \in NonTerminalStatuses}
    \cup {[status |-> "failed", output |-> o] : o \in {Undefined, Null, Str(Url1)}}
    \cup {[status |-> "succeeded", output |-> o] : o \in Outputs}

\* How a fetch() settles: the promise rejects (network error), or resolves
\* with response.ok false, or with response.ok true.
RespKinds == {"reject", "http_error", "ok"}

NoJob == [status |-> "unset", output |-> Undefined]
NoRet == [success |-> FALSE, isMock |-> FALSE, blob |-> "none",
          remoteUrl |-> "none", error |-> "none"]

(***************************************************************************)
(* Pure helpers of the code.                                               *)
(***************************************************************************)
maxAttempts(v) ==
    CASE v = "api" -> MaxAttemptsApi
      [] v = "sdxl" -> MaxAttemptsSdxl
      [] OTHER -> MaxAttemptsFlux

\* Math.floor(Math.min(95, base + attempts * rate)): 10 + 1.5a, or 5 + 1.0a.
ProgressUncapped(v, a) ==
    IF v = "flux" THEN 5 + a ELSE 10 + (3 * a) \div 2

\* Mutant of Progress: Math.min(95, ...) is left out.
ProgressNoCap(v, a) == ProgressUncapped(v, a)

Progress(v, a) == Min(ProgressCap, ProgressUncapped(v, a))

\* Mutant of LoopContinues: the budget test lets one more attempt through.
LoopContinuesOffByOne(status, a, v) ==
    status # "succeeded" /\ status # "failed" /\ a <= maxAttempts(v)

\* Mutant of LoopContinues: a failed job does not end the loop.
LoopContinuesPastFailed(status, a, v) ==
    status # "succeeded" /\ a < maxAttempts(v)

\* A variant of LoopContinues: 'canceled' is taken as a terminal status.
LoopContinuesCanceledStops(status, a, v) ==
    status \notin {"succeeded", "failed", "canceled"} /\ a < maxAttempts(v)

\* The while condition of the poll loop.
LoopContinues(status, a, v) ==
    status # "succeeded" /\ status # "failed" /\ a < maxAttempts(v)

\* Mutant of ResultUrl: the last element of a list is taken, not the first.
ResultUrlLast(output) ==
    IF output.kind = "array"
    THEN IF Len(output.items) > 0 THEN Str(output.items[Len(output.items)]) ELSE Undefined
    ELSE output

\* Array.isArray(output) ? output[0] : output
ResultUrl(output) ==
    IF output.kind = "array"
    THEN IF Len(output.items) > 0 THEN Str(output.items[1]) ELSE Undefined
    ELSE output

\* Mutant of Falsy: only null and undefined are tested (resultUrl == null).
FalsyNullish(x) == x.kind \in {"undefined", "null"}

\* !x for the values an output can take
Falsy(x) ==
    x.kind \in {"undefined", "null"} \/ (x.kind = "string" /\ x.val = "")

\* The three throws after the loop; "" when none applies.
PostLoopError(snap) ==
    IF snap.status = "failed" THEN "Style transfer failed"
    ELSE IF snap.status # "succeeded" THEN "Processing timeout"
    ELSE IF Falsy(ResultUrl(snap.output)) THEN "No result image"
    ELSE ""

\* Whether the submission, the status query and the final-image fetch carry
\* an Authorization header (only the api variant talks to the provider itself).
SubmitCarriesAuth(v) == v = "api"
PollCarriesAuth(v) == v = "api"
FetchCarriesAuth(v) == FALSE

SubmitErrorMsg(v) == IF v = "api" THEN "API Error" ELSE "Server error"
PollErrorMsg(v) ==
    IF v = "api" THEN "Failed to get prediction status" ELSE "Failed to check status"

\* Mutant of SkipsRealPipeline: every variant tests the key.
SkipsRealPipelineAnyVariant(v, key) == key = "" \/ key = PlaceholderKey

\* if (!apiKey || apiKey === 'YOUR_REPLICATE_API_KEY_HERE'), only in the api variant
SkipsRealPipeline(v, key) ==
    v = "api" /\ (key = "" \/ key = PlaceholderKey)

\* Mutant of UseMock: the result of the real pipeline is returned as it is.
UseMockNever(res) == FALSE

\* if (!result.success) of processStyleTransfer
UseMock(res) == ~res.success

\* The value applyStyleTransfer's catch block returns.
CatchResult(msg) ==
    [success |-> FALSE, isMock |-> FALSE, blob |-> "none",
     remoteUrl |-> "none", error |-> msg]

\* The value applyStyleTransfer returns after the final-image fetch.
RealResult(blob, url) ==
    [success |-> TRUE, isMock |-> FALSE, blob |-> blob,
     remoteUrl |-> url, error |-> "none"]

\* The value mockStyleTransfer resolves with.
MockResult ==
    [success |-> TRUE, isMock |-> TRUE, blob |-> "photoFile",
     remoteUrl |-> "none", error |-> "none"]

\* The callback may throw each time it is invoked; there is nothing to throw
\* when no callback was passed.
CbThrowChoices == IF hasCb THEN BOOLEAN ELSE {FALSE}

(***************************************************************************)
(* The state after processStyleTransfer has been called with its arguments *)
(* and before its first statement has run.                                 *)
(***************************************************************************)
Init ==
    /\ variant \in Variants
    /\ apiKey \in ApiKeys
    /\ hasCb \in BOOLEAN
    /\ decodable \in BOOLEAN
    /\ pc = "start"
    /\ imgErrorFired = FALSE
    /\ urlsGet = FALSE
    /\ result = NoJob
    /\ attempts = 0
    /\ queries = 0
    /\ outstanding = 0
    /\ fetches = 0
    /\ fetchUrl = "none"
    /\ emitted = <<>>
    /\ faults = {}
    /\ kNonTerminal = 0
    /\ realOutcome = "notrun"
    /\ realError = ""
    /\ mockStarted = FALSE
    /\ mockTicks = 0
    /\ ret = NoRet
    /\ requests = {}
    /\ img = "unused"
    /\ desc = "unused"
    /\ calls = "unused"
    /\ proxy = "unused"

(***************************************************************************)
(* Pieces of control flow shared by the handlers.  Each sets pc,           *)
(* realOutcome, realError, mockStarted, ret, fetches and fetchUrl.         *)
(***************************************************************************)

\* processStyleTransfer once applyStyleTransfer has returned res: fall back to
\* mockStyleTransfer (which creates its interval timer) or return res.
ProcessReturn(res) ==
    IF UseMock(res)
    THEN /\ pc' = "mock"
         /\ mockStarted' = TRUE
         /\ ret' = ret
    ELSE /\ pc' = "returned"
         /\ mockStarted' = mockStarted
         /\ ret' = res

\* An exception reaches applyStyleTransfer's catch block.
Catch(msg) ==
    /\ realOutcome' = "failed"
    /\ realError' = msg
    /\ UNCHANGED <<fetches, fetchUrl>>
    /\ ProcessReturn(CatchResult(msg))

\* The loop test with snapshot snap and counter a, and what follows the loop
\* when it is left: one of the three throws, or the final-image fetch.
AfterLoopTest(snap, a) ==
    IF LoopContinues(snap.status, a, variant)
    THEN /\ pc' = "sleep"
         /\ UNCHANGED <<realOutcome, realError, mockStarted, ret, fetches, fetchUrl>>
    ELSE IF PostLoopError(snap) # ""
    THEN Catch(PostLoopError(snap))
    ELSE /\ pc' = "fetch_wait"
         /\ fetches' = fetches + 1
         /\ fetchUrl' = ResultUrl(snap.output).val
         /\ UNCHANGED <<realOutcome, realError, mockStarted, ret>>

\* What a response body adds to the injected failures.
BodyFaults(body) ==
    (IF body.status = "failed" THEN {"job_failed"} ELSE {})
    \cup (IF body.status = "succeeded" /\ body.output \in EmptyOutputs
          THEN {"no_output"} ELSE {})

\* A throw of onProgress, in the real pipeline and in the simulator.
ThrowFault(throws) == IF throws THEN {"cb_throw"} ELSE {}
MockThrowFault(throws) == IF throws THEN {"mock_cb_throw"} ELSE {}

(***************************************************************************)
(* Actions.                                                                *)
(***************************************************************************)

\* processStyleTransfer is entered; it runs up to the await inside resizeImage
\* (img.src is set), or starts the simulator at once.
Start ==
    /\ UNCHANGED auxVars
    /\ UNCHANGED requests
    /\ pc = "start"
    /\ IF SkipsRealPipeline(variant, apiKey)
       THEN /\ pc' = "mock"
            /\ mockStarted' = TRUE
            /\ realOutcome' = realOutcome
       ELSE /\ pc' = "resize"
            /\ mockStarted' = mockStarted
            /\ realOutcome' = "running"
    /\ UNCHANGED <<variant, apiKey, hasCb, decodable, imgErrorFired, urlsGet,
                   result, attempts, queries, outstanding, fetches, fetchUrl,
                   emitted, faults, kNonTerminal, realError, mockTicks, ret>>

\* img.onload: the canvas is drawn and canvas.toBlob is requested.
ImgOnload ==
    /\ UNCHANGED auxVars
    /\ UNCHANGED requests
    /\ pc = "resize"
    /\ decodable
    /\ pc' = "toblob"
    /\ UNCHANGED <<variant, apiKey, hasCb, decodable, imgErrorFired, urlsGet,
                   result, attempts, queries, outstanding, fetches, fetchUrl,
                   emitted, faults, kNonTerminal, realOutcome, realError,
                   mockStarted, mockTicks, ret>>

\* The image cannot be decoded: the browser dispatches the error event, for
\* which resizeImage registers no handler; its promise has no reject path.
ImgError ==
    /\ UNCHANGED auxVars
    /\ UNCHANGED requests
    /\ pc = "resize"
    /\ ~decodable
    /\ ~imgErrorFired
    /\ imgErrorFired' = TRUE
    /\ faults' = faults \cup {"decode"}
    /\ UNCHANGED <<variant, apiKey, hasCb, decodable, pc, urlsGet,
                   result, attempts, queries, outstanding, fetches, fetchUrl,
                   emitted, kNonTerminal, realOutcome, realError,
                   mockStarted, mockTicks, ret>>

\* The toBlob callback resolves resizeImage; fileToBase64 starts the reader.
ToBlobDone ==
    /\ UNCHANGED auxVars
    /\ UNCHANGED requests
    /\ pc = "toblob"
    /\ pc' = "read"
    /\ UNCHANGED <<variant, apiKey, hasCb, decodable, imgErrorFired, urlsGet,
                   result, attempts, queries, outstanding, fetches, fetchUrl,
                   emitted, faults, kNonTerminal, realOutcome, realError,
                   mockStarted, mockTicks, ret>>

\* reader.onerror rejects fileToBase64; the rejection is caught.
ReaderOnerror ==
    /\ UNCHANGED auxVars
    /\ UNCHANGED requests
    /\ pc = "read"
    /\ faults' = faults \cup {"read"}
    /\ Catch("undefined")
    /\ UNCHANGED <<variant, apiKey, hasCb, decodable, imgErrorFired, urlsGet,
                   result, attempts, queries, outstanding, emitted,
                   kNonTerminal, mockTicks>>

\* reader.onload: the prompt is built, onProgress is told the request is being
\* made, and the submission is sent.
ReaderOnload ==
    /\ UNCHANGED auxVars
    /\ pc = "read"
    /\ \E throws \in CbThrowChoices :
         /\ faults' = faults \cup ThrowFault(throws)
         /\ IF throws
            THEN Catch("callback error")
            ELSE /\ pc' = "submit_wait"
                 /\ UNCHANGED <<realOutcome, realError, mockStarted, ret,
                                fetches, fetchUrl>>
         /\ requests' =
              IF throws THEN requests
              ELSE requests \cup {[kind |-> "submit", auth |-> SubmitCarriesAuth(variant)]}
    /\ UNCHANGED <<variant, apiKey, hasCb, decodable, imgErrorFired, urlsGet,
                   result, attempts, queries, outstanding, emitted,
                   kNonTerminal, mockTicks>>

\* The submission fetch rejects.
SubmitRejected ==
    /\ UNCHANGED auxVars
    /\ UNCHANGED requests
    /\ pc = "submit_wait"
    /\ faults' = faults \cup {"submit_net"}
    /\ Catch("network error")
    /\ UNCHANGED <<variant, apiKey, hasCb, decodable, imgErrorFired, urlsGet,
                   result, attempts, queries, outstanding, emitted,
                   kNonTerminal, mockTicks>>

\* Mutant of SubmitHttpError: response.ok is not tested, the error body is
\* parsed as the prediction (it has no status) and the loop is entered.
SubmitHttpErrorUnchecked ==
    /\ UNCHANGED auxVars
    /\ UNCHANGED requests
    /\ pc = "submit_wait"
    /\ faults' = faults \cup {"submit_http"}
    /\ result' = [status |-> "missing", output |-> Undefined]
    /\ AfterLoopTest([status |-> "missing", output |-> Undefined], attempts)
    /\ UNCHANGED <<variant, apiKey, hasCb, decodable, imgErrorFired, urlsGet,
                   attempts, queries, outstanding, emitted,
                   kNonTerminal, mockTicks>>

\* The submission is answered with a non-success status: if (!createResponse.ok).
SubmitHttpError ==
    /\ UNCHANGED auxVars
    /\ UNCHANGED requests
    /\ pc = "submit_wait"
    /\ faults' = faults \cup {"submit_http"}
    /\ Catch(SubmitErrorMsg(variant))
    /\ UNCHANGED <<variant, apiKey, hasCb, decodable, imgErrorFired, urlsGet,
                   result, attempts, queries, outstanding, emitted,
                   kNonTerminal, mockTicks>>

\* The submission is answered with a prediction: it becomes the snapshot,
\* onProgress is told, and the loop is entered.
SubmitOk ==
    /\ UNCHANGED auxVars
    /\ pc = "submit_wait"
    /\ \E body \in Bodies, urls \in BOOLEAN, throws \in CbThrowChoices :
         /\ result' = body
         /\ urlsGet' = urls
         /\ faults' = faults \cup BodyFaults(body) \cup ThrowFault(throws)
         /\ IF throws
            THEN Catch("callback error")
            ELSE AfterLoopTest(body, attempts)
         /\ requests' =
              IF pc' = "fetch_wait"
              THEN requests \cup {[kind |-> "fetch", auth |-> FetchCarriesAuth(variant)]}
              ELSE requests
    /\ UNCHANGED <<variant, apiKey, hasCb, decodable, imgErrorFired,
                   attempts, queries, outstanding, emitted,
                   kNonTerminal, mockTicks>>

\* A variant of the poll timer that fires on a fixed period whether or not the
\* previous status query has been answered (setInterval instead of
\* sleep-then-await).
PollTimerOverlapping ==
    /\ UNCHANGED auxVars
    /\ pc \in {"sleep", "poll_wait"}
    /\ attempts < maxAttempts(variant)
    /\ attempts' = attempts + 1
    /\ queries' = queries + 1
    /\ requests' = requests \cup {[kind |-> "poll", auth |-> PollCarriesAuth(variant)]}
    /\ outstanding' = outstanding + 1
    /\ pc' = "poll_wait"
    /\ UNCHANGED <<faults, realOutcome, realError, mockStarted, ret, fetches, fetchUrl>>
    /\ UNCHANGED <<variant, apiKey, hasCb, decodable, imgErrorFired, urlsGet,
                   result, emitted, kNonTerminal, mockTicks>>

\* sleep() is over: attempts++ and the status query is issued.  The api
\* variant reads prediction.urls.get, a TypeError when urls is absent.
PollTimer ==
    /\ UNCHANGED auxVars
    /\ pc = "sleep"
    /\ attempts' = attempts + 1
    /\ IF variant = "api" /\ ~urlsGet
       THEN /\ faults' = faults \cup {"no_urls"}
            /\ Catch("TypeError")
            /\ UNCHANGED <<queries, outstanding, requests>>
       ELSE /\ queries' = queries + 1
            /\ requests' = requests \cup {[kind |-> "poll", auth |-> PollCarriesAuth(variant)]}
            /\ outstanding' = outstanding + 1
            /\ pc' = "poll_wait"
            /\ UNCHANGED <<faults, realOutcome, realError, mockStarted, ret,
                           fetches, fetchUrl>>
    /\ UNCHANGED <<variant, apiKey, hasCb, decodable, imgErrorFired, urlsGet,
                   result, emitted, kNonTerminal, mockTicks>>

\* The status fetch rejects.
PollRejected ==
    /\ UNCHANGED auxVars
    /\ UNCHANGED requests
    /\ pc = "poll_wait"
    /\ outstanding' = outstanding - 1
    /\ faults' = faults \cup {"poll_net"}
    /\ Catch("network error")
    /\ UNCHANGED <<variant, apiKey, hasCb, decodable, imgErrorFired, urlsGet,
                   result, attempts, queries, emitted, kNonTerminal, mockTicks>>

\* The status query is answered with a non-success status.
PollHttpError ==
    /\ UNCHANGED auxVars
    /\ UNCHANGED requests
    /\ pc = "poll_wait"
    /\ outstanding' = outstanding - 1
    /\ faults' = faults \cup {"poll_http"}
    /\ Catch(PollErrorMsg(variant))
    /\ UNCHANGED <<variant, apiKey, hasCb, decodable, imgErrorFired, urlsGet,
                   result, attempts, queries, emitted, kNonTerminal, mockTicks>>

\* The status query is answered: the body replaces the snapshot, the progress
\* percentage is reported, and the loop test is made again.
PollOk ==
    /\ UNCHANGED auxVars
    /\ pc = "poll_wait"
    /\ outstanding' = outstanding - 1
    /\ \E body \in Bodies, throws \in CbThrowChoices :
         /\ result' = body
         /\ kNonTerminal' =
              IF body.status \in NonTerminalStatuses
              THEN kNonTerminal + 1 ELSE kNonTerminal
         /\ emitted' =
              IF hasCb
              THEN Append(emitted, [src |-> "real", pct |-> Progress(variant, attempts)])
              ELSE emitted
         /\ faults' = faults \cup BodyFaults(body) \cup ThrowFault(throws)
         /\ IF throws
            THEN Catch("callback error")
            ELSE AfterLoopTest(body, attempts)
         /\ requests' =
              IF pc' = "fetch_wait"
              THEN requests \cup {[kind |-> "fetch", auth |-> FetchCarriesAuth(variant)]}
              ELSE requests
    /\ UNCHANGED <<variant, apiKey, hasCb, decodable, imgErrorFired, urlsGet,
                   attempts, queries, mockTicks>>

\* The final-image fetch rejects.
FetchRejected ==
    /\ UNCHANGED auxVars
    /\ UNCHANGED requests
    /\ pc = "fetch_wait"
    /\ faults' = faults \cup {"fetch_net"}
    /\ Catch("network error")
    /\ UNCHANGED <<variant, apiKey, hasCb, decodable, imgErrorFired, urlsGet,
                   result, attempts, queries, outstanding, emitted,
                   kNonTerminal, mockTicks>>

\* The final-image fetch resolves; response.ok is not looked at, the body is
\* read as the blob and the result is returned.
FetchResolved ==
    /\ UNCHANGED auxVars
    /\ UNCHANGED requests
    /\ pc = "fetch_wait"
    /\ \E kind \in {"http_error", "ok"} :
         /\ faults' = faults \cup (IF kind = "http_error" THEN {"fetch_http"} ELSE {})
         /\ ProcessReturn(RealResult(IF kind = "ok" THEN "remoteBytes" ELSE "errorBody",
                                     fetchUrl))
    /\ realOutcome' = "ok"
    /\ UNCHANGED <<variant, apiKey, hasCb, decodable, imgErrorFired, urlsGet,
                   result, attempts, queries, outstanding, fetches, fetchUrl,
                   emitted, kNonTerminal, realError, mockTicks>>

\* A variant of the simulator's timer callback that never calls clearInterval:
\* the interval keeps firing, and reporting progress, after the promise has
\* resolved.
MockTickNoClear ==
    /\ UNCHANGED auxVars
    /\ UNCHANGED requests
    /\ pc \in {"mock", "returned"}
    /\ mockStarted
    /\ mockTicks < MaxMockTicks
    /\ mockTicks' = mockTicks + 1
    /\ emitted' =
         IF hasCb
         THEN Append(emitted, [src |-> "mock", pct |-> MockStep * (mockTicks + 1)])
         ELSE emitted
    /\ \E throws \in CbThrowChoices :
         /\ faults' = faults \cup MockThrowFault(throws)
         /\ IF pc = "mock" /\ ~throws /\ MockStep * (mockTicks + 1) >= MockDone
            THEN /\ pc' = "returned"
                 /\ ret' = MockResult
            ELSE UNCHANGED <<pc, ret>>
    /\ UNCHANGED <<variant, apiKey, hasCb, decodable, imgErrorFired, urlsGet,
                   result, attempts, queries, outstanding, fetches, fetchUrl,
                   kNonTerminal, realOutcome, realError, mockStarted>>

\* One setInterval callback of mockStyleTransfer: progress += 10, onProgress,
\* and at 100 or more clearInterval and resolve.  A throwing onProgress ends
\* the callback before the test; the interval keeps firing.
MockTick ==
    /\ UNCHANGED auxVars
    /\ UNCHANGED requests
    /\ pc = "mock"
    /\ mockTicks < MaxMockTicks
    /\ mockTicks' = mockTicks + 1
    /\ emitted' =
         IF hasCb
         THEN Append(emitted, [src |-> "mock", pct |-> MockStep * (mockTicks + 1)])
         ELSE emitted
    /\ \E throws \in CbThrowChoices :
         /\ faults' = faults \cup MockThrowFault(throws)
         /\ IF ~throws /\ MockStep * (mockTicks + 1) >= MockDone
            THEN /\ pc' = "returned"
                 /\ ret' = MockResult
            ELSE UNCHANGED <<pc, ret>>
    /\ UNCHANGED <<variant, apiKey, hasCb, decodable, imgErrorFired, urlsGet,
                   result, attempts, queries, outstanding, fetches, fetchUrl,
                   kNonTerminal, realOutcome, realError, mockStarted>>

Next ==
    \/ Start
    \/ ImgOnload
    \/ ImgError
    \/ ToBlobDone
    \/ ReaderOnerror
    \/ ReaderOnload
    \/ SubmitRejected
    \/ SubmitHttpError
    \/ SubmitOk
    \/ PollTimer
    \/ PollRejected
    \/ PollHttpError
    \/ PollOk
    \/ FetchRejected
    \/ FetchResolved
    \/ MockTick

Spec == Init /\ [][Next]_vars

\* Every pending event (load, response, timer) is eventually delivered.
FairSpec == Spec /\ WF_vars(Next)

(***************************************************************************)
(* Vocabulary of the properties.                                           *)
(***************************************************************************)
Returned == pc = "returned"
RealEnded == realOutcome \in {"ok", "failed"}

\* The call is suspended at resizeImage's promise after the image's error
\* event: no handler is left that could settle the promise.
PendingForever == pc = "resize" /\ imgErrorFired

\* A failure was injected into the real pipeline: a decode or read failure, a
\* rejected or non-success response, a failed job, a job with no output, a
\* throwing callback, or a status that stayed non-terminal to the budget.
RealFaults ==
    {"decode", "read", "submit_net", "submit_http", "no_urls", "poll_net",
     "poll_http", "job_failed", "no_output", "fetch_net", "fetch_http", "cb_throw"}
FailureInjected ==
    \/ faults \cap RealFaults # {}
    \/ (RealEnded /\ result.status \in NonTerminalStatuses)

(***************************************************************************)
(* C1.  processStyleTransfer never throws to its caller, and for any       *)
(* failure injected at any stage of the real pipeline the call returns a   *)
(* result with success = true and isMock = true: once a failure has been   *)
(* injected the call is not left without a way to return, and what it      *)
(* returns is tagged as simulated.                                         *)
(***************************************************************************)
C1_FailureYieldsMockResult ==
    FailureInjected =>
        /\ ~PendingForever
        /\ (Returned => ret.success /\ ret.isMock)

(***************************************************************************)
(* C2.  When the input image cannot be decoded, resizeImage fails with an  *)
(* error that propagates to its caller and from there to the simulator     *)
(* fallback, so that the call eventually returns a result: under FairSpec  *)
(* (every pending load, response and timer is eventually delivered), a     *)
(* call whose image raised the error event eventually returns.             *)
(***************************************************************************)
C2_DecodeFailureReturns == imgErrorFired ~> Returned

\* C2 as a safety statement: once the decode failure has been delivered, the
\* call is no longer suspended in resizeImage, the real pipeline has failed
\* and the simulator has been started.
C2_DecodeFailurePropagates ==
    imgErrorFired =>
        /\ pc # "resize"
        /\ realOutcome = "failed"
        /\ mockStarted

\* The real pipeline has ended, the snapshot is still non-terminal, every
\* status query issued was answered with a non-terminal status, and no
\* exception came from the callback or from a missing urls field.
StatusStuck ==
    /\ RealEnded
    /\ result.status \in NonTerminalStatuses
    /\ kNonTerminal = queries
    /\ faults \cap {"cb_throw", "no_urls"} = {}

(***************************************************************************)
(* C3.  A call never issues more than maxAttempts status queries (60 in    *)
(* the api and sdxl variants, 90 in flux).  When the status stays          *)
(* non-terminal (the submission and every status query are answered with   *)
(* a non-terminal status, and nothing else fails), the loop issues exactly *)
(* maxAttempts queries, none after that, and the real pipeline ends with   *)
(* 'Processing timeout'.                                                   *)
(***************************************************************************)
C3_PollBudget ==
    /\ queries <= maxAttempts(variant)
    /\ attempts <= maxAttempts(variant)
    /\ StatusStuck =>
         /\ queries = maxAttempts(variant)
         /\ realOutcome = "failed"
         /\ realError = "Processing timeout"
         /\ fetches = 0

C3_Witness ==
    /\ Returned
    /\ variant = "flux"
    /\ StatusStuck
    /\ queries = MaxAttemptsFlux
    /\ ret.isMock

(***************************************************************************)
(* C4.  Once the tracked snapshot has status 'succeeded' or 'failed',      *)
(* whether it came from the submission or from a poll, no step issues a    *)
(* further status query and the snapshot's status stays what it is.        *)
(***************************************************************************)
C4_TerminalIsFinal ==
    [][result.status \in TerminalStatuses =>
          /\ queries' = queries
          /\ result'.status = result.status]_vars

C4_Witness ==
    /\ Returned
    /\ result.status \in TerminalStatuses
    /\ queries > 0
    /\ mockTicks > 0

(***************************************************************************)
(* C5.  When the submission is answered with a non-success response, no    *)
(* status query and no final-image fetch is issued in that call, the       *)
(* simulator is started, and the result handed to the caller is the        *)
(* simulated one with the original input photo as its blob.                *)
(***************************************************************************)
C5_SubmitFailureShortCircuits ==
    "submit_http" \in faults =>
        /\ queries = 0
        /\ fetches = 0
        /\ attempts = 0
        /\ realOutcome = "failed"
        /\ realError = SubmitErrorMsg(variant)
        /\ mockStarted
        /\ (Returned => ret = MockResult /\ ret.blob = "photoFile")

C5_Witness ==
    /\ Returned
    /\ "submit_http" \in faults
    /\ ret.success /\ ret.isMock /\ ret.blob = "photoFile"

(***************************************************************************)
(* C6.  The percentages the polling loop hands to onProgress, one per      *)
(* tick, never decrease from one tick to the next, never exceed 95, and    *)
(* so never reach 100, whatever status has been observed.                  *)
(***************************************************************************)
C6_LoopProgressMonotoneCapped ==
    \A i \in 1..Len(emitted) :
        emitted[i].src = "real" =>
            /\ emitted[i].pct <= ProgressCap
            /\ emitted[i].pct < MockDone
            /\ (i > 1 /\ emitted[i - 1].src = "real"
                  => emitted[i - 1].pct <= emitted[i].pct)

\* A run in which the cap is what keeps the percentage at 95 (10 + 1.5 * 60
\* is 100), with the whole budget of ticks reported.
C6_Witness ==
    /\ variant = "sdxl"
    /\ Len(emitted) >= MaxAttemptsSdxl
    /\ emitted[1] = [src |-> "real", pct |-> 11]
    /\ emitted[MaxAttemptsSdxl] = [src |-> "real", pct |-> ProgressCap]
    /\ ProgressUncapped(variant, MaxAttemptsSdxl) > ProgressCap

(***************************************************************************)
(* C7.  When a poll response reports 'failed', on any attempt, no          *)
(* final-image fetch is issued, the real pipeline fails, the simulator is  *)
(* started, and the blob returned to the caller is the original photo,     *)
(* with no remote locator.                                                 *)
(***************************************************************************)
C7_PollFailedFallsBack ==
    (result.status = "failed" /\ queries > 0) =>
        /\ fetches = 0
        /\ realOutcome = "failed"
        /\ mockStarted
        /\ (Returned =>
              /\ ret.success /\ ret.isMock
              /\ ret.blob = "photoFile"
              /\ ret.remoteUrl = "none")

\* Scenario C: 'failed' on attempt 5 (with an output the service left behind).
C7_Witness ==
    /\ Returned
    /\ result = [status |-> "failed", output |-> Str(Url1)]
    /\ attempts = 5 /\ queries = 5
    /\ realError = "Style transfer failed"
    /\ ret.blob = "photoFile"

(***************************************************************************)
(* C8.  A snapshot that reports 'succeeded' with no usable output locator  *)
(* (absent, null, an empty string, an empty list, or a list whose first    *)
(* element is empty) fails the real pipeline: no final-image fetch is      *)
(* issued and the caller receives the simulated result.                    *)
(***************************************************************************)
C8_EmptyOutputIsFailure ==
    (result.status = "succeeded" /\ result.output \in EmptyOutputs) =>
        /\ fetches = 0
        /\ realOutcome = "failed"
        /\ mockStarted
        /\ (Returned => ret.success /\ ret.isMock /\ ret.blob = "photoFile")

C8_Witness ==
    /\ Returned
    /\ result = [status |-> "succeeded", output |-> Str("")]
    /\ queries > 0
    /\ realError = "No result image"
    /\ ret.isMock

\* The locator the result must carry for a usable output.
ExpectedUrl(output) ==
    IF output.kind = "array" THEN output.items[1] ELSE output.val

\* The call has returned after a poll reported 'succeeded' with a usable
\* output, no callback having thrown and the final-image fetch answered.
SucceededByPolling ==
    /\ Returned
    /\ queries > 0
    /\ result.status = "succeeded"
    /\ result.output \in UsableOutputs
    /\ faults \cap {"cb_throw", "fetch_net"} = {}

(***************************************************************************)
(* C9.  When the submission succeeds, k polls report a non-terminal        *)
(* status and the next poll reports 'succeeded' with a usable output (the  *)
(* callback not throwing and the final-image fetch being answered), the    *)
(* call has issued exactly k + 1 status queries, with k < maxAttempts, and *)
(* returns success = true without the isMock tag, with remoteUrl the first *)
(* element of output when output is a list and output itself otherwise.    *)
(***************************************************************************)
C9_SuccessAfterKPolls ==
    SucceededByPolling =>
        /\ queries = kNonTerminal + 1
        /\ kNonTerminal < maxAttempts(variant)
        /\ fetches = 1
        /\ ret.success /\ ~ret.isMock
        /\ ret.remoteUrl = ExpectedUrl(result.output)
        /\ ~mockStarted

\* Scenario A (three polls 'processing', then 'succeeded' with a one-element
\* list), and a two-element list whose first element is the one returned.
C9_Witness ==
    /\ SucceededByPolling
    /\ kNonTerminal = 3 /\ queries = 4
    /\ result.output = Arr(<<Url2, Url1>>)
    /\ ret.remoteUrl = Url2
    /\ ret.blob = "remoteBytes"

(***************************************************************************)
(* C10.  ORIGINAL: in every call the simulator is started only after the   *)
(* real pipeline has been run and has ended in failure; it is never        *)
(* selected from the caller's inputs.                                      *)
(***************************************************************************)
C10_MockOnlyAfterRealFailure ==
    mockStarted => realOutcome = "failed"

\* The caller passed no usable API key.
KeyMissing == apiKey = "" \/ apiKey = PlaceholderKey

(***************************************************************************)
(* C10.  AMENDED: the simulator is started only after the real pipeline    *)
(* has run and failed, except in styleTransferAPI.js when apiKey is empty  *)
(* or the placeholder, where it is started at once and the real pipeline   *)
(* is not run at all; in every other call the real pipeline is run first.  *)
(***************************************************************************)
C10_MockAfterFailureOrNoKey ==
    /\ mockStarted =>
         \/ realOutcome = "failed"
         \/ (variant = "api" /\ KeyMissing /\ realOutcome = "notrun")
    /\ (pc # "start" /\ ~(variant = "api" /\ KeyMissing)) => realOutcome # "notrun"
    /\ (variant = "api" /\ KeyMissing) => realOutcome = "notrun" /\ queries = 0
    /\ realOutcome = "ok" => ~mockStarted

C10_Witness ==
    /\ Returned
    /\ mockStarted
    /\ realOutcome = "failed"
    /\ variant = "flux"
    /\ apiKey = ""
    /\ ret.isMock

(***************************************************************************)
(* C11.  A non-success response to a status query is recoverable: it does  *)
(* not end the real pipeline while attempts remain in the budget (the      *)
(* orchestrator queries again on the following ticks); the real pipeline   *)
(* fails on such a response only when the budget is exhausted.             *)
(***************************************************************************)
C11_PollFailureRetried ==
    ("poll_http" \in faults /\ realOutcome = "failed") =>
        attempts = maxAttempts(variant)

(***************************************************************************)
(* C12.  A progress callback that throws never blocks or fails the         *)
(* orchestration: an exception thrown by the callback does not end the     *)
(* real pipeline, and the simulator has resolved once its progress has     *)
(* reached 100, whether or not the callback threw.                         *)
(***************************************************************************)
C12_CallbackThrowHarmless ==
    /\ "cb_throw" \in faults => realError # "callback error"
    /\ (mockStarted /\ MockStep * mockTicks >= MockDone) => Returned

(***************************************************************************)
(* C13.  Within one call the status queries are strictly sequential and    *)
(* rate-limited: at no time are two status queries outstanding; a status   *)
(* query is issued only by the step that ends a sleep, one query per such  *)
(* step, while no query is outstanding; and a sleep is started only by the *)
(* step that receives the response to the submission or to the previous    *)
(* status query.                                                           *)
(***************************************************************************)
C13_QueriesSequential ==
    [][/\ outstanding <= 1 /\ outstanding' <= 1
       /\ queries' # queries =>
            /\ pc = "sleep" /\ outstanding = 0
            /\ queries' = queries + 1
            /\ outstanding' = 1
       /\ (pc' = "sleep" /\ pc # "sleep") =>
            /\ pc \in {"submit_wait", "poll_wait"}
            /\ outstanding' = 0]_vars

\* The third status query is outstanding, the two before it answered.
C13_Witness ==
    /\ pc = "poll_wait"
    /\ queries = 3
    /\ outstanding = 1
    /\ kNonTerminal >= 2

\* The percentages the simulator has reported to the callback, in order.
FromMock(e) == e.src = "mock"
MockEmitted == SelectSeq(emitted, FromMock)

\* The sequence 10, 20, ..., 100 as the simulator reports it.
MockSequence == [i \in 1..(MockDone \div MockStep) |-> [src |-> "mock", pct |-> MockStep * i]]

(***************************************************************************)
(* C15.  With a callback that does not throw (or no callback), a call      *)
(* that has returned the simulator's result has run exactly ten timer      *)
(* ticks, has reported exactly 10, 20, ..., 100 from the simulator (one    *)
(* callback per tick), and holds success = true, isMock = true and the     *)
(* original input file as blob.  The simulator has no failure path: no     *)
(* returned result of the simulator is anything else, and since this holds *)
(* in every state after the return, no tick and no callback follows it.    *)
(***************************************************************************)
C15_MockSequenceThenResolve ==
    /\ (Returned /\ mockStarted /\ "mock_cb_throw" \notin faults) =>
         /\ mockTicks = MockDone \div MockStep
         /\ hasCb => MockEmitted = MockSequence
         /\ ~hasCb => emitted = <<>>
         /\ ret = MockResult
         /\ ret.success /\ ret.isMock /\ ret.blob = "photoFile"
    /\ (mockStarted /\ ~Returned /\ "mock_cb_throw" \notin faults) =>
         /\ mockTicks < MockDone \div MockStep
         /\ hasCb => MockEmitted = SubSeq(MockSequence, 1, mockTicks)
    /\ (Returned /\ mockStarted) => ret = MockResult

\* The simulator has resolved after a real pipeline that failed at
\* submission, its ten percentages following the one of the real pipeline.
C15_Witness ==
    /\ Returned
    /\ hasCb
    /\ mockTicks = 10
    /\ Len(MockEmitted) = 10
    /\ MockEmitted[10].pct = 100
    /\ Len(emitted) = 11
    /\ ret.isMock
    /\ ret.blob = "photoFile"

(***************************************************************************)
(* C19.  A result without the isMock tag is returned only when the         *)
(* final-image fetch itself succeeded: a call that has returned such a     *)
(* result had no final-image fetch rejected or answered with a non-success *)
(* status, and its blob is the image's bytes, never an error body; after   *)
(* such a fetch failure the real pipeline counts as failed.                *)
(***************************************************************************)
C19_RealResultOnlyAfterFetchOk ==
    /\ (Returned /\ ~ret.isMock) =>
         /\ faults \cap {"fetch_net", "fetch_http"} = {}
         /\ ret.blob = "remoteBytes"
    /\ (faults \cap {"fetch_net", "fetch_http"} # {}) => realOutcome = "failed"

\* A step that receives a response (to the submission or to a status query)
\* whose status is neither 'succeeded' nor 'failed', nothing failing in it.
NonTerminalResponse ==
    /\ pc \in {"submit_wait", "poll_wait"}
    /\ pc' # pc
    /\ faults' = faults
    /\ result'.status \in NonTerminalStatuses

(***************************************************************************)
(* C20.  A reported status other than 'succeeded' and 'failed'             *)
(* ('starting', 'processing', 'canceled', a missing status field) is       *)
(* non-terminal.  The step that receives such a status keeps the real      *)
(* pipeline running and goes to the next sleep and status query while      *)
(* attempts remain, with no final-image fetch and no simulator; when it    *)
(* is the response to the last attempt of the budget, the real pipeline    *)
(* ends with 'Processing timeout' and the simulator is started.            *)
(***************************************************************************)
C20_OtherStatusNonTerminal ==
    [][NonTerminalResponse =>
          IF attempts < maxAttempts(variant)
          THEN /\ pc' = "sleep"
               /\ realOutcome' = "running"
               /\ ~mockStarted'
               /\ fetches' = 0
          ELSE /\ queries' = maxAttempts(variant)
               /\ realOutcome' = "failed"
               /\ realError' = "Processing timeout"
               /\ fetches' = 0
               /\ mockStarted'
               /\ pc' = "mock"]_vars

\* Every response said 'canceled' or the like, up to the budget; the call
\* has returned the simulator's result.
C20_Witness ==
    /\ Returned
    /\ variant = "sdxl"
    /\ result.status = "canceled"
    /\ kNonTerminal = MaxAttemptsSdxl
    /\ queries = MaxAttemptsSdxl
    /\ realError = "Processing timeout"
    /\ ret.isMock

(***************************************************************************)
(* C18.  No request issued by the client-side core (submission, status     *)
(* query or final-image fetch) carries the provider's credential: none of  *)
(* the requests of a call has an Authorization header.                     *)
(***************************************************************************)
C18_NoClientCredential ==
    \A r \in requests : ~r.auth

(***************************************************************************)
(* resizeImage on its own.  The call's variables stay as they are before   *)
(* processStyleTransfer is entered; variant says whose resizeImage runs.   *)
(***************************************************************************)

\* No call is running.
NoCall ==
    /\ apiKey = ""
    /\ hasCb = FALSE
    /\ decodable = TRUE
    /\ pc = "start"
    /\ imgErrorFired = FALSE
    /\ urlsGet = FALSE
    /\ result = NoJob
    /\ attempts = 0
    /\ queries = 0
    /\ outstanding = 0
    /\ fetches = 0
    /\ fetchUrl = "none"
    /\ emitted = <<>>
    /\ faults = {}
    /\ kNonTerminal = 0
    /\ realOutcome = "notrun"
    /\ realError = ""
    /\ mockStarted = FALSE
    /\ mockTicks = 0
    /\ ret = NoRet
    /\ requests = {}

\* The maxWidth each applyStyleTransfer passes to resizeImage.
maxWidth(v) ==
    CASE v = "api" -> MaxWidthApi
      [] v = "sdxl" -> MaxWidthSdxl
      [] OTHER -> MaxWidthFlux

\* Widths and heights of the decoded image (img.width, img.height): small,
\* just under, at and just over each maxWidth, and larger photographs.
ImgEdges ==
    {1, 2, 3, 500, 767, 768, 769, 1000, 1002, 1023, 1024, 1025, 1333, 2000,
     3001, 4032}

\* A variant of ResizeNeeded that looks at the longer edge.
ResizeNeededLongerEdge(w, h, max) == w > max \/ h > max

\* if (width > maxWidth)
ResizeNeeded(w, h, max) == w > max

\* width after the if.
ScaledWidth(w, h, max) == IF ResizeNeeded(w, h, max) THEN max ELSE w

\* height after the if: (height * maxWidth) / width, a fraction in general,
\* kept as numerator and denominator.
ScaledHeight(w, h, max) ==
    IF ResizeNeeded(w, h, max)
    THEN [num |-> h * max, den |-> w]
    ELSE [num |-> h, den |-> 1]

\* canvas.width = ..., canvas.height = ...: the attributes are unsigned long,
\* the conversion drops the fractional part.
ToUnsignedLong(x) == x.num \div x.den

\* Math.round of a non-negative fraction.
Round(x) == (2 * x.num + x.den) \div (2 * x.den)

ResizeInit ==
    /\ variant \in Variants
    /\ NoCall
    /\ \E w \in ImgEdges, h \in ImgEdges :
         img = [phase |-> "loading", w |-> w, h |-> h, max |-> maxWidth(variant),
                cw |-> 0, ch |-> 0, fw |-> 0, fh |-> 0]
    /\ desc = "unused"
    /\ calls = "unused"
    /\ proxy = "unused"

\* img.onload: the canvas is sized and the image drawn into it.
ResizeOnload ==
    /\ img.phase = "loading"
    /\ img' = [img EXCEPT !.phase = "drawn",
                          !.cw = ToUnsignedLong([num |-> ScaledWidth(img.w, img.h, img.max),
                                                 den |-> 1]),
                          !.ch = ToUnsignedLong(ScaledHeight(img.w, img.h, img.max))]
    /\ UNCHANGED <<callVars, desc, calls, proxy>>

\* The toBlob callback: the promise resolves with a JPEG file that has the
\* canvas's pixel dimensions.
ResizeToBlob ==
    /\ img.phase = "drawn"
    /\ img' = [img EXCEPT !.phase = "done", !.fw = img.cw, !.fh = img.ch]
    /\ UNCHANGED <<callVars, desc, calls, proxy>>

ResizeNext ==
    \/ ResizeOnload
    \/ ResizeToBlob

ResizeSpec == ResizeInit /\ [][ResizeNext]_vars

\* The longer edge of the input image.
LongerEdge == IF img.w >= img.h THEN img.w ELSE img.h

\* The height the claim states, and the distance of the result from it.
RoundedHeight == Round([num |-> img.h * img.max, den |-> img.w])
Dist(a, b) == IF a >= b THEN a - b ELSE b - a

(***************************************************************************)
(* C16.  ORIGINAL: for every image whose longer edge (width or height)     *)
(* exceeds maxDimension, the resized image has width exactly maxDimension  *)
(* and height round(height * maxDimension / width); for every image whose  *)
(* longer edge is at most maxDimension the dimensions are unchanged.       *)
(***************************************************************************)
C16_ResizeByLongerEdge ==
    img.phase = "done" =>
        IF LongerEdge > img.max
        THEN img.fw = img.max /\ img.fh = RoundedHeight
        ELSE img.fw = img.w /\ img.fh = img.h

(***************************************************************************)
(* C16.  AMENDED: for every image whose width exceeds maxWidth, the        *)
(* resized image has width exactly maxWidth and height                     *)
(* floor(height * maxWidth / width), which is within one pixel of the      *)
(* rounded value; for every image whose width is at most maxWidth the      *)
(* dimensions are unchanged, whatever its height.                          *)
(***************************************************************************)
C16_ResizeByWidth ==
    img.phase = "done" =>
        IF img.w > img.max
        THEN /\ img.fw = img.max
             /\ img.fh = (img.h * img.max) \div img.w
             /\ Dist(img.fh, RoundedHeight) <= 1
        ELSE img.fw = img.w /\ img.fh = img.h

\* 2000x1000 with maxWidth 768 has become 768x384.
C16_Witness ==
    /\ img.phase = "done"
    /\ img.w = 2000 /\ img.h = 1000 /\ img.max = 768
    /\ img.fw = 768 /\ img.fh = 384

(***************************************************************************)
(* The prompt builders on their own: createArtisticPrompt (flux),          *)
(* createStylePrompt (sdxl), and the prompt lines of applyStyleTransfer    *)
(* with getStyleDescription (api).  A prompt is the sequence of the        *)
(* pieces of its template literal.                                         *)
(***************************************************************************)

\* artistPrompts of createArtisticPrompt.
ArtistPromptsFlux ==
    "Claude Monet" :> "soft brushstrokes, dappled light, vibrant colors, outdoor atmosphere, impressionist painting style"
    @@ "Pierre-Auguste Renoir" :> "warm tones, soft focus, luminous skin, joyful atmosphere, impressionist portrait style"
    @@ "Edgar Degas" :> "dynamic composition, ballet dancers, indoor lighting, pastel colors, impressionist scene"
    @@ "Edvard Munch" :> "emotional intensity, swirling forms, dramatic colors, expressionist painting style"
    @@ "Egon Schiele" :> "angular lines, emotional depth, expressive gestures, expressionist portrait style"
    @@ "Vincent van Gogh" :> "thick impasto brushstrokes, swirling patterns, vibrant colors, emotional intensity, post-impressionist style"
    @@ "Paul Cézanne" :> "geometric forms, structured composition, muted colors, post-impressionist style"
    @@ "Henri Matisse" :> "bold colors, simplified forms, decorative patterns, fauvist painting style"
    @@ "Pablo Picasso" :> "fragmented forms, multiple perspectives, geometric shapes, cubist painting style"

\* createStylePrompt and applyStyleTransfer of styleTransferAPI.js have no
\* table of artists.
NoTable == [k \in {} |-> ""]

\* styleKeywords of createArtisticPrompt.
StyleKeywordsFlux ==
    "impressionism" :> "soft brushstrokes, natural light, outdoor scene, vibrant colors"
    @@ "expressionism" :> "emotional expression, bold colors, distorted forms, dramatic mood"
    @@ "fauvism" :> "wild colors, simplified forms, bold brushwork"
    @@ "cubism" :> "geometric shapes, fragmented perspective, angular forms"
    @@ "surrealism" :> "dreamlike quality, imaginative elements, surreal atmosphere"
    @@ "romanticism" :> "dramatic lighting, emotional atmosphere, sublime beauty"
    @@ "baroque" :> "dramatic chiaroscuro, rich colors, ornate details"
    @@ "renaissance" :> "realistic proportions, balanced composition, classical beauty"

\* styleKeywords of createStylePrompt.
StyleKeywordsSdxl ==
    "impressionism" :> "impressionist painting, visible brushstrokes, light and color, outdoor scene"
    @@ "expressionism" :> "expressionist painting, bold colors, emotional, distorted forms"
    @@ "cubism" :> "cubist painting, geometric shapes, fragmented, multiple perspectives"
    @@ "surrealism" :> "surrealist painting, dreamlike, imaginative, symbolic"
    @@ "romanticism" :> "romantic painting, dramatic lighting, emotional atmosphere"
    @@ "baroque" :> "baroque painting, dramatic lighting, rich colors, ornate details"
    @@ "renaissance" :> "renaissance painting, realistic, balanced composition, classical beauty"
    @@ "fauvism" :> "fauvist painting, wild colors, bold brushstrokes, simplified forms"
    @@ "rococo" :> "rococo painting, ornate, pastel colors, playful, elegant"

\* descriptions of getStyleDescription.
StyleDescriptionsApi ==
    "impressionism" :> "impressionist brushstrokes, light and color, outdoor lighting"
    @@ "expressionism" :> "expressionist style, emotional, bold colors, dramatic"
    @@ "cubism" :> "cubist style, geometric shapes, multiple perspectives"
    @@ "surrealism" :> "surrealist style, dreamlike, imaginative"
    @@ "romanticism" :> "romantic style, dramatic, emotional, sublime"
    @@ "baroque" :> "baroque style, dramatic lighting, ornate, detailed"
    @@ "renaissance" :> "renaissance style, balanced composition, realistic"
    @@ "classical" :> "classical style, idealized beauty, harmonious"
    @@ "byzantine" :> "byzantine style, golden, religious, iconic"
    @@ "korean" :> "Korean traditional painting style, ink and colors, natural"
    @@ "chinese" :> "Chinese ink painting style, monochrome, expressive brushwork"
    @@ "japanese" :> "Japanese ukiyo-e style, woodblock print, flat colors"

ArtistTable(v) == IF v = "flux" THEN ArtistPromptsFlux ELSE NoTable

StyleTable(v) ==
    CASE v = "api" -> StyleDescriptionsApi
      [] v = "sdxl" -> StyleKeywordsSdxl
      [] OTHER -> StyleKeywordsFlux

DefaultFragment == Str("artistic painting style")

\* table[key] on an object literal: undefined unless key is one of its keys
\* (the keys of Object.prototype are left aside).
Lookup(table, key) ==
    IF key.kind = "string" /\ key.val \in DOMAIN table
    THEN Str(table[key.val])
    ELSE Undefined

\* a || b
Or(a, b) == IF Falsy(a) THEN b ELSE a

\* ${x} in a template literal.
Text(x) == IF x.kind = "string" THEN x.val ELSE x.kind

\* artwork.artistEn || artwork.artist, and artwork.titleEn || artwork.title
ArtistOf(aw) == Or(aw.artistEn, aw.artist)
TitleOf(aw) == Or(aw.titleEn, aw.title)

\* A variant of Fragment that looks the style up before the artist.
FragmentStyleFirst(v, aw) ==
    Or(Or(Lookup(StyleTable(v), aw.style), Lookup(ArtistTable(v), ArtistOf(aw))),
       DefaultFragment)

\* artistPrompts[artist] || styleKeywords[style] || 'artistic painting style'
Fragment(v, aw) ==
    Or(Or(Lookup(ArtistTable(v), ArtistOf(aw)), Lookup(StyleTable(v), aw.style)),
       DefaultFragment)

\* The template literal of each builder.
Prompt(v, aw) ==
    CASE v = "flux" ->
           <<"A beautiful painting in the style of ", Text(ArtistOf(aw)), ", ",
             Text(Fragment(v, aw)),
             ", masterpiece, high quality, professional artwork, detailed, artistic interpretation">>
      [] v = "sdxl" ->
           <<"A painting in the style of ", Text(ArtistOf(aw)), ", ",
             Text(Fragment(v, aw)), ", masterpiece, high quality, artistic">>
      [] OTHER ->
           <<"professional painting in the style of ", Text(TitleOf(aw)), " by ",
             Text(ArtistOf(aw)), ", ", Text(Fragment(v, aw)),
             ", masterpiece, high quality, artistic">>

\* The artwork descriptors tried: every artist and style of the tables, an
\* unknown one, the empty string and an absent field.
ArtistEnValues ==
    {Undefined, Str("")} \cup {Str(a) : a \in DOMAIN ArtistPromptsFlux \cup {"Rembrandt"}}
ArtistValues == {Undefined, Str("Claude Monet"), Str("Monet-ko")}
StyleValues ==
    {Undefined, Str("")}
    \cup {Str(k) : k \in DOMAIN StyleKeywordsFlux \cup DOMAIN StyleKeywordsSdxl
                        \cup DOMAIN StyleDescriptionsApi \cup {"pop-art"}}
TitleEnValues == {Undefined, Str("Water Lilies")}
TitleValues == {Str("Suryeon")}
Artworks ==
    [titleEn : TitleEnValues, title : TitleValues, artistEn : ArtistEnValues,
     artist : ArtistValues, style : StyleValues]

PromptInit ==
    /\ variant \in Variants
    /\ NoCall
    /\ img = "unused"
    /\ \E aw \in Artworks :
         desc = [phase |-> "given", artwork |-> aw, fragment |-> "", prompt |-> <<>>]
    /\ calls = "unused"
    /\ proxy = "unused"

\* The builder is called with the artwork.
BuildPrompt ==
    /\ desc.phase = "given"
    /\ desc' = [desc EXCEPT !.phase = "built",
                            !.fragment = Text(Fragment(variant, desc.artwork)),
                            !.prompt = Prompt(variant, desc.artwork)]
    /\ UNCHANGED <<callVars, img, calls, proxy>>

PromptNext == BuildPrompt

PromptSpec == PromptInit /\ [][PromptNext]_vars

\* The artist name the builder works with is a key of its artist table; the
\* style is a key of its style table.
ArtistRecognized ==
    /\ ArtistOf(desc.artwork).kind = "string"
    /\ ArtistOf(desc.artwork).val \in DOMAIN ArtistTable(variant)
StyleRecognized ==
    /\ desc.artwork.style.kind = "string"
    /\ desc.artwork.style.val \in DOMAIN StyleTable(variant)

CallIds == {1, 2}

\* The responses a call gets: to the submission (a status, or an HTTP error),
\* to its status queries in order ('processing' once the list is used up),
\* and to the final-image fetch.
Scripts ==
    {[submit |-> "http_error", polls |-> <<>>, fetch |-> "ok"],
     [submit |-> "succeeded", polls |-> <<>>, fetch |-> "ok"],
     [submit |-> "starting", polls |-> <<"processing", "processing", "succeeded">>,
      fetch |-> "ok"],
     [submit |-> "starting", polls |-> <<"processing", "failed">>, fetch |-> "ok"],
     [submit |-> "starting", polls |-> <<"http_error">>, fetch |-> "ok"],
     [submit |-> "starting", polls |-> <<"succeeded">>, fetch |-> "reject"],
     [submit |-> "starting", polls |-> <<>>, fetch |-> "ok"]}

PollResponse(sc, q) == IF q <= Len(sc.polls) THEN sc.polls[q] ELSE "processing"

\* What a callback is told: the two messages, and the percentages.
Preparing == [src |-> "preparing", pct |-> 0]
Generating == [src |-> "generating", pct |-> 0]
RealPct(n) == [src |-> "real", pct |-> n]
MockPct(n) == [src |-> "mock", pct |-> n]

\* A variant of CounterOf: one attempts counter at module level, used by
\* every call.
CounterShared(c) == 1

\* The attempts counter call c reads and increments: its own local.
CounterOf(c) == c

\* The callback call c invokes: its own onProgress argument.
CallbackOf(c) == c

TwoCallInit ==
    /\ variant \in Variants
    /\ NoCall
    /\ img = "unused"
    /\ desc = "unused"
    /\ proxy = "unused"
    /\ calls \in [CallIds ->
                   {[script |-> sc, pc |-> "start", status |-> "unset", attempts |-> 0,
                     queries |-> 0, progress |-> 0, log |-> <<>>, ret |-> NoRet]
                      : sc \in Scripts}]

\* Call c goes to the simulator (applyStyleTransfer returned success: false).
ToMock(f) == [f EXCEPT !.pc = "mock"]

\* The loop test and what follows the loop, for the locals f of a call and
\* the counter value a.
AfterLoop(f, a) ==
    IF LoopContinues(f.status, a, variant)
    THEN [f EXCEPT !.pc = "sleep"]
    ELSE IF f.status = "succeeded"
    THEN [f EXCEPT !.pc = "fetch_wait"]
    ELSE ToMock(f)

\* Call c is made and runs to its submission fetch.
CallStart(c) ==
    /\ calls[c].pc = "start"
    /\ calls' = [calls EXCEPT ![c].pc = "submit_wait",
                              ![CallbackOf(c)].log = Append(@, Preparing)]
    /\ UNCHANGED <<callVars, img, desc, proxy>>

\* The submission of call c is answered.
CallSubmitted(c) ==
    /\ calls[c].pc = "submit_wait"
    /\ calls' =
         IF calls[c].script.submit = "http_error"
         THEN [calls EXCEPT ![c] = ToMock(@)]
         ELSE LET told == [calls EXCEPT ![CallbackOf(c)].log = Append(@, Generating),
                                        ![CounterOf(c)].attempts = 0]
              IN [told EXCEPT ![c] = AfterLoop([@ EXCEPT !.status = calls[c].script.submit],
                                               told[CounterOf(c)].attempts)]
    /\ UNCHANGED <<callVars, img, desc, proxy>>

\* The sleep of call c is over: attempts++ and its status query is issued.
CallPollTimer(c) ==
    /\ calls[c].pc = "sleep"
    /\ calls' = [calls EXCEPT ![CounterOf(c)].attempts = @ + 1,
                              ![c].queries = @ + 1,
                              ![c].pc = "poll_wait"]
    /\ UNCHANGED <<callVars, img, desc, proxy>>

\* The status query of call c is answered.
CallPolled(c) ==
    /\ calls[c].pc = "poll_wait"
    /\ LET r == PollResponse(calls[c].script, calls[c].queries)
           a == calls[CounterOf(c)].attempts
       IN calls' =
            IF r = "http_error"
            THEN [calls EXCEPT ![c] = ToMock(@)]
            ELSE LET told == [calls EXCEPT ![CallbackOf(c)].log =
                                               Append(@, RealPct(Progress(variant, a)))]
                 IN [told EXCEPT ![c] = AfterLoop([@ EXCEPT !.status = r], a)]
    /\ UNCHANGED <<callVars, img, desc, proxy>>

\* The final-image fetch of call c settles.
CallFetched(c) ==
    /\ calls[c].pc = "fetch_wait"
    /\ calls' =
         IF calls[c].script.fetch = "ok"
         THEN [calls EXCEPT ![c].pc = "returned",
                            ![c].ret = RealResult("remoteBytes", Url1)]
         ELSE [calls EXCEPT ![c] = ToMock(@)]
    /\ UNCHANGED <<callVars, img, desc, proxy>>

\* One interval callback of the simulator of call c.
CallMockTick(c) ==
    /\ calls[c].pc = "mock"
    /\ LET p == calls[c].progress + MockStep
           told == [calls EXCEPT ![c].progress = p,
                                 ![CallbackOf(c)].log = Append(@, MockPct(p))]
       IN calls' =
            IF p >= MockDone
            THEN [told EXCEPT ![c].pc = "returned", ![c].ret = MockResult]
            ELSE told
    /\ UNCHANGED <<callVars, img, desc, proxy>>

TwoCallNext ==
    \/ \E c \in CallIds : CallStart(c)
    \/ \E c \in CallIds : CallSubmitted(c)
    \/ \E c \in CallIds : CallPollTimer(c)
    \/ \E c \in CallIds : CallPolled(c)
    \/ \E c \in CallIds : CallFetched(c)
    \/ \E c \in CallIds : CallMockTick(c)

TwoCallSpec == TwoCallInit /\ [][TwoCallNext]_vars

\* What the simulator tells the callback.
MockLog == [i \in 1..(MockDone \div MockStep) |-> MockPct(MockStep * i)]

\* The status queries of a call running alone against script sc that end
\* its loop: those answered 'succeeded', 'failed' or with an HTTP error.
LoopEnders(v, sc) ==
    {q \in 1..maxAttempts(v) :
        PollResponse(sc, q) \in TerminalStatuses \cup {"http_error"}}

\* The percentages reported for the status queries 1..n.
PollLog(v, n) == [i \in 1..n |-> RealPct(Progress(v, i))]

\* The poll loop of a call running alone against script sc: the number of
\* status queries, what the callback has been told when the real pipeline
\* ends, and whether it ends in success.
AloneLoop(v, sc) ==
    IF sc.submit \in TerminalStatuses
    THEN [queries |-> 0, log |-> <<Preparing, Generating>>,
          ok |-> sc.submit = "succeeded" /\ sc.fetch = "ok"]
    ELSE IF LoopEnders(v, sc) = {}
    THEN [queries |-> maxAttempts(v),
          log |-> <<Preparing, Generating>> \o PollLog(v, maxAttempts(v)),
          ok |-> FALSE]
    ELSE LET q == CHOOSE x \in LoopEnders(v, sc) : \A y \in LoopEnders(v, sc) : x <= y
         IN IF PollResponse(sc, q) = "http_error"
            THEN [queries |-> q, log |-> <<Preparing, Generating>> \o PollLog(v, q - 1),
                  ok |-> FALSE]
            ELSE [queries |-> q, log |-> <<Preparing, Generating>> \o PollLog(v, q),
                  ok |-> PollResponse(sc, q) = "succeeded" /\ sc.fetch = "ok"]

\* The whole call running alone against script sc.
Alone(v, sc) ==
    IF sc.submit = "http_error"
    THEN [queries |-> 0, log |-> <<Preparing>> \o MockLog, ret |-> MockResult]
    ELSE LET l == AloneLoop(v, sc)
         IN IF l.ok
            THEN [queries |-> l.queries, log |-> l.log,
                  ret |-> RealResult("remoteBytes", Url1)]
            ELSE [queries |-> l.queries, log |-> l.log \o MockLog, ret |-> MockResult]

IsPrefix(s, t) == Len(s) <= Len(t) /\ s = SubSeq(t, 1, Len(s))

(***************************************************************************)
(* C14.  Two interleaved calls are independent: under every interleaving,  *)
(* what a callback has been told is at every moment a prefix of what the   *)
(* call it was passed to tells it when running alone against the same      *)
(* responses (so no other call ever invokes it), a call never issues more  *)
(* status queries than alone, and a call that has returned has issued the  *)
(* same number of status queries, has told its callback the same sequence  *)
(* and holds the same result as alone.                                     *)
(***************************************************************************)
C14_CallsIndependent ==
    \A c \in CallIds :
        LET alone == Alone(variant, calls[c].script)
        IN /\ IsPrefix(calls[c].log, alone.log)
           /\ calls[c].queries <= alone.queries
           /\ calls[c].pc = "returned" =>
                /\ calls[c].queries = alone.queries
                /\ calls[c].log = alone.log
                /\ calls[c].ret = alone.ret

\* Call 1 has succeeded after three polls while call 2, whose submission was
\* refused, has returned the simulator's result; each callback has been told
\* its own call's sequence.
C14_Witness ==
    /\ calls[1].pc = "returned" /\ calls[2].pc = "returned"
    /\ calls[1].queries = 3 /\ ~calls[1].ret.isMock
    /\ calls[2].queries = 0 /\ calls[2].ret.isMock
    /\ Len(calls[1].log) = 5
    /\ Len(calls[2].log) = 11

(***************************************************************************)
(* C21.  Over one whole call, the percentages delivered to the caller's    *)
(* progress callback, those of the real pipeline followed by those of the  *)
(* simulator when the call falls back, form a non-decreasing sequence.     *)
(***************************************************************************)
C21_WholeCallProgressMonotone ==
    \A i \in 1..(Len(emitted) - 1) : emitted[i].pct <= emitted[i + 1].pct

(***************************************************************************)
(* The proxy handler of src/api/replicate.js, one request at a time.       *)
(* proxy holds the request, the handler's position, the responses written  *)
(* to res, and the requests forwarded to the prediction service.           *)
(***************************************************************************)

\* req.method
Methods == {"OPTIONS", "GET", "POST", "PUT", "DELETE"}

\* req.body: absent (undefined, which cannot be destructured), or an object
\* whose image and prompt are absent, empty or given.
ImageValues == {Undefined, Str(""), Str("data:image/jpeg;base64,AAAA"), Str("data:image/jpeg;base64,BBBB")}
PromptValues == {Undefined, Str(""), Str("A painting in the style of Claude Monet"), Str("A beautiful painting")}
NoBody == [present |-> FALSE, image |-> Undefined, prompt |-> Undefined]
RequestBodies ==
    {NoBody} \cup [present : {TRUE}, image : ImageValues, prompt : PromptValues]

\* The non-success statuses the prediction service answers with.
UpstreamErrorStatuses == {401, 422, 500}

\* What is written to res: the status, how the response is ended, and the
\* error message or the data of its JSON body.
EndResponse(code) == [status |-> code, kind |-> "end", error |-> "", data |-> NoJob]
ErrorResponse(code, msg) == [status |-> code, kind |-> "json", error |-> msg, data |-> NoJob]
DataResponse(code, d) == [status |-> code, kind |-> "json", error |-> "", data |-> d]

\* A variant of MissingInput that tests the image only.
MissingInputImageOnly(image, prompt) == Falsy(image)

\* !image || !prompt
MissingInput(image, prompt) == Falsy(image) \/ Falsy(prompt)

\* The Authorization header the handler puts on the forwarded request.
ForwardCarriesAuth == TRUE

ProxyInit ==
    /\ variant = "flux"
    /\ NoCall
    /\ img = "unused"
    /\ desc = "unused"
    /\ calls = "unused"
    /\ \E m \in Methods, b \in RequestBodies :
         proxy = [method |-> m, body |-> b, pc |-> "received", cors |-> FALSE,
                  responses |-> <<>>, forwards |-> <<>>, upstream |-> "none",
                  code |-> 0]

\* res.status(code)... : the response is written and the handler is over.
Respond(p, r) == [p EXCEPT !.pc = "done", !.responses = Append(@, r)]

\* The handler is entered and runs to its first await or to its return.
ProxyHandle ==
    /\ proxy.pc = "received"
    /\ LET p == [proxy EXCEPT !.cors = TRUE]
       IN proxy' =
            IF p.method = "OPTIONS" THEN Respond(p, EndResponse(200))
            ELSE IF p.method # "POST"
            THEN Respond(p, ErrorResponse(405, "Method not allowed"))
            ELSE IF ~p.body.present
            THEN Respond(p, ErrorResponse(500, "TypeError"))
            ELSE IF MissingInput(p.body.image, p.body.prompt)
            THEN Respond(p, ErrorResponse(400, "Missing image or prompt"))
            ELSE [p EXCEPT !.pc = "upstream_wait",
                           !.forwards = Append(@, [image |-> p.body.image.val,
                                                   prompt |-> p.body.prompt.val,
                                                   auth |-> ForwardCarriesAuth])]
    /\ UNCHANGED <<callVars, img, desc, calls>>

\* The upstream fetch rejects; the catch block answers 500.
UpstreamRejected ==
    /\ proxy.pc = "upstream_wait"
    /\ proxy' = Respond([proxy EXCEPT !.upstream = "rejected"],
                        ErrorResponse(500, "fetch failed"))
    /\ UNCHANGED <<callVars, img, desc, calls>>

\* The upstream answers with a non-success status: its text is awaited.
UpstreamNotOk ==
    /\ proxy.pc = "upstream_wait"
    /\ \E code \in UpstreamErrorStatuses :
         proxy' = [proxy EXCEPT !.pc = "text_wait", !.upstream = "not_ok",
                                !.code = code]
    /\ UNCHANGED <<callVars, img, desc, calls>>

\* response.text() settles: the handler throws 'API Error: <status>' (or the
\* rejection of text() is thrown); the catch block answers 500.
UpstreamTextDone ==
    /\ proxy.pc = "text_wait"
    /\ \E resolved \in BOOLEAN :
         proxy' = Respond(proxy, ErrorResponse(500, IF resolved THEN "API Error"
                                                                ELSE "body error"))
    /\ UNCHANGED <<callVars, img, desc, calls>>

\* The upstream answers with a success status: its JSON is awaited.
UpstreamOk ==
    /\ proxy.pc = "upstream_wait"
    /\ proxy' = [proxy EXCEPT !.pc = "json_wait", !.upstream = "ok"]
    /\ UNCHANGED <<callVars, img, desc, calls>>

\* response.json() resolves with the prediction: it is answered with 200.
UpstreamJsonParsed ==
    /\ proxy.pc = "json_wait"
    /\ \E d \in Bodies :
         proxy' = Respond(proxy, DataResponse(200, d))
    /\ UNCHANGED <<callVars, img, desc, calls>>

\* response.json() rejects (the body is not JSON); the catch block answers 500.
UpstreamJsonFailed ==
    /\ proxy.pc = "json_wait"
    /\ proxy' = Respond([proxy EXCEPT !.upstream = "bad_json"],
                        ErrorResponse(500, "SyntaxError"))
    /\ UNCHANGED <<callVars, img, desc, calls>>

ProxyNext ==
    \/ ProxyHandle
    \/ UpstreamRejected
    \/ UpstreamNotOk
    \/ UpstreamTextDone
    \/ UpstreamOk
    \/ UpstreamJsonParsed
    \/ UpstreamJsonFailed

ProxySpec == ProxyInit /\ [][ProxyNext]_vars

\* The request is a POST whose body has both an image and a prompt.
Forwardable ==
    /\ proxy.method = "POST"
    /\ proxy.body.present
    /\ ~Falsy(proxy.body.image)
    /\ ~Falsy(proxy.body.prompt)

\* The status the claim gives for a request that has been answered.
ExpectedStatus ==
    IF proxy.method = "OPTIONS" THEN 200
    ELSE IF proxy.method # "POST" THEN 405
    ELSE IF ~proxy.body.present THEN 500
    ELSE IF ~Forwardable THEN 400
    ELSE IF proxy.upstream = "ok" THEN 200
    ELSE 500

(***************************************************************************)
(* C22.  For every request the proxy handler sends exactly one response    *)
(* (none while it is running, where a step is always left to take, and     *)
(* one once it is over), and it forwards the request upstream, once, only  *)
(* when the method is POST and both image and prompt are present.          *)
(* OPTIONS is answered 200, any other non-POST method 405, a POST whose    *)
(* body lacks image or prompt 400, an upstream non-success response or a   *)
(* thrown error (a rejected fetch, a body that cannot be read, a request   *)
(* with no body to destructure) 500, and otherwise 200 with the upstream   *)
(* JSON body.                                                              *)
(***************************************************************************)
C22_ProxyResponses ==
    /\ Len(proxy.responses) = (IF proxy.pc = "done" THEN 1 ELSE 0)
    /\ proxy.pc # "done" => ENABLED ProxyNext
    /\ Len(proxy.forwards) = (IF Forwardable /\ proxy.pc # "received" THEN 1 ELSE 0)
    /\ \A i \in 1..Len(proxy.forwards) :
         /\ proxy.forwards[i].image = proxy.body.image.val
         /\ proxy.forwards[i].prompt = proxy.body.prompt.val
    /\ proxy.pc = "done" =>
         /\ proxy.responses[1].status = ExpectedStatus
         /\ (proxy.responses[1].status = 200 /\ proxy.method = "POST") =>
              /\ proxy.responses[1].kind = "json"
              /\ proxy.responses[1].data \in Bodies
              /\ proxy.upstream = "ok"
         /\ proxy.responses[1].status # 200 => proxy.responses[1].error # ""

\* A POST with image and prompt was forwarded and answered 200 with the
\* prediction the upstream returned.
C22_Witness ==
    /\ proxy.pc = "done"
    /\ proxy.method = "POST"
    /\ Len(proxy.forwards) = 1
    /\ proxy.responses = <<DataResponse(200, [status |-> "starting", output |-> Undefined])>>

====
